---- MODULE Spec2Model ----
(***************************************************************************)
(* Client analytics of comisiones-dls: the computation ClientDetailView    *)
(* performs over a client's invoices (period filter, growth figures,       *)
(* per-product analysis, alerts and status), and the period windows of     *)
(* VisitPrepDashboard.  Both views read the same invoices.                 *)
(*                                                                         *)
(* Amounts are integers (currency units).  A growth percentage is an exact *)
(* rational [num, den] with den > 0; at the thresholds the code tests      *)
(* (-20, -15, -5, 15) the double ((cur - prev) / prev) * 100 is the exact  *)
(* value, so the comparisons agree.  An instant is [m, d, t]: m counts     *)
(* calendar months from a January of a non-leap year, d is the day of the  *)
(* month, and t the time of day: 0 = 00:00, 1 = during the day,            *)
(* 2 = 23:59:59.999.  An invoice date is a date-only string, [m, d].       *)
(* The memoised values of the component (filteredInvoices, analytics) are  *)
(* functions of its props and state and are defined as such.               *)
(***************************************************************************)
EXTENDS Integers, Sequences, FiniteSets, TLC

VARIABLES invoices, period, now, periodFilter, selectedClientId,
          matches, loading, error, persistent_matches, deletesInFlight,
          open, preview, importerLoading, importing, awaitingBulkImport,
          handedOver, onBulkImportProvided

analyticsVars == <<invoices, period, now, periodFilter, selectedClientId>>

cardVars == <<matches, loading, error, persistent_matches, deletesInFlight>>

importerVars == <<open, preview, importerLoading, importing,
                  awaitingBulkImport, handedOver, onBulkImportProvided>>

vars == <<analyticsVars, cardVars, importerVars>>

(* ------------------------------ bounds -------------------------------- *)

MaxInvoices == 2

MaxScenarioInvoices == 3

MaxMatches == 3

MaxCsvRows == 2

MaxImports == 2

(* ----------------------------- calendar ------------------------------- *)

MonthLengths == <<31, 28, 31, 30, 31, 30, 31, 31, 30, 31, 30, 31>>

DaysInMonth(m) == MonthLengths[(m % 12) + 1]

(* Days of the year before each month: the running sums of MonthLengths. *)
DaysBeforeMonthOfYear == <<0, 31, 59, 90, 120, 151, 181, 212, 243, 273, 304, 334>>

DaysBeforeMonth(m) == 365 * (m \div 12) + DaysBeforeMonthOfYear[(m % 12) + 1]

Stamp(x) == (DaysBeforeMonth(x.m) + x.d) * 3 + x.t

Min(a, b) == IF a <= b THEN a ELSE b

subMonths_overflowDay(x, n) ==
    IF x.d <= DaysInMonth(x.m - n) THEN [m |-> x.m - n, d |-> x.d, t |-> x.t]
    ELSE [m |-> x.m - n + 1, d |-> x.d - DaysInMonth(x.m - n), t |-> x.t]

(* date-fns subMonths: the same day of the month n months earlier, or the  *)
(* last day of that month when it is shorter; the time of day is kept.     *)
subMonths(x, n) ==
    [m |-> x.m - n, d |-> Min(x.d, DaysInMonth(x.m - n)), t |-> x.t]

subQuarters(x, n) == subMonths(x, 3 * n)

subYears(x, n) == subMonths(x, 12 * n)

startOfMonth(x) == [m |-> x.m, d |-> 1, t |-> 0]

endOfMonth(x) == [m |-> x.m, d |-> DaysInMonth(x.m), t |-> 2]

parseISO(s) == [m |-> s.m, d |-> s.d, t |-> 0]

isWithinInterval(x, start, end) ==
    Stamp(x) >= Stamp(start) /\ Stamp(x) <= Stamp(end)

differenceInDays(left, right) ==
    IF Stamp(left) >= Stamp(right)
    THEN (Stamp(left) - Stamp(right)) \div 3
    ELSE 0 - ((Stamp(right) - Stamp(left)) \div 3)

(* ------------------------------ inputs -------------------------------- *)

Periods == {"1m", "3m", "6m", "1y", "all"}

client == [id |-> "c1"]

Line(name, amount) ==
    [product_name |-> name, amount |-> amount, commission |-> amount \div 10]

SumAmounts(lines) ==
    LET RECURSIVE S(_)
        S(i) == IF i = 0 THEN 0 ELSE S(i - 1) + lines[i].amount
    IN S(Len(lines))

Invoice(cid, date, lines, rest) ==
    [client_id |-> cid, invoice_date |-> date,
     total_amount |-> SumAmounts(lines) + rest,
     total_commission |-> (SumAmounts(lines) + rest) \div 10,
     rest_amount |-> rest, rest_commission |-> rest \div 10,
     products |-> lines]

NowDates == {[m |-> 31, d |-> 31]}

(* The reference instant is 31 August of the third year, at midnight or   *)
(* later in the day.  Invoices are dated in the current month (1 August), *)
(* in the previous month (1 July, 61 days before, and 21 July) and on the *)
(* day six months back (28 February, the clamped day of                    *)
(* subMonths(now, 6)).                                                     *)
InvoiceDates ==
    {[m |-> 31, d |-> 1], [m |-> 30, d |-> 21], [m |-> 30, d |-> 1], [m |-> 25, d |-> 28]}

InvoiceLines ==
    {<<Line("A", 100)>>, <<Line("B", 50)>>, <<Line("B", 80), Line("A", 80)>>,
     <<Line("C", 200)>>}

InvoiceSet == {Invoice(client.id, dt, ls, 0) : dt \in InvoiceDates, ls \in InvoiceLines}

(* ------------------------- ClientDetailView --------------------------- *)

filteredInvoices_anyClient ==
    LET startDate == CASE period = "1m" -> subMonths(now, 1)
                       [] period = "3m" -> subQuarters(now, 1)
                       [] period = "6m" -> subMonths(now, 6)
                       [] period = "1y" -> subYears(now, 1)
                       [] OTHER -> subMonths(now, 6)
    IN IF period = "all" THEN invoices
       ELSE SelectSeq(invoices,
                LAMBDA inv : Stamp(parseISO(inv.invoice_date)) >= Stamp(startDate))

(* The memoised filteredInvoices for a given invoices prop. *)
filteredInvoicesOf(invs) ==
    LET clientInvoices == SelectSeq(invs, LAMBDA inv : inv.client_id = client.id)
        startDate == CASE period = "1m" -> subMonths(now, 1)
                       [] period = "3m" -> subQuarters(now, 1)
                       [] period = "6m" -> subMonths(now, 6)
                       [] period = "1y" -> subYears(now, 1)
                       [] OTHER -> subMonths(now, 6)
    IN IF period = "all" THEN clientInvoices
       ELSE SelectSeq(clientInvoices,
                LAMBDA inv : Stamp(parseISO(inv.invoice_date)) >= Stamp(startDate))

filteredInvoices == filteredInvoicesOf(invoices)

(* Sums of a field over a sequence of invoices (Array.prototype.reduce). *)
SumTotalAmount(invs) ==
    LET RECURSIVE S(_)
        S(i) == IF i = 0 THEN 0 ELSE S(i - 1) + invs[i].total_amount
    IN S(Len(invs))

SumTotalCommission(invs) ==
    LET RECURSIVE S(_)
        S(i) == IF i = 0 THEN 0 ELSE S(i - 1) + invs[i].total_commission
    IN S(Len(invs))

currentMonthStart == startOfMonth(now)
currentMonthEnd == endOfMonth(now)
previousMonthStart == startOfMonth(subMonths(now, 1))
previousMonthEnd == endOfMonth(subMonths(now, 1))
sixMonthsAgo == subMonths(now, 6)

totalSales == SumTotalAmount(filteredInvoices)
totalCommission == SumTotalCommission(filteredInvoices)
invoiceCount == Len(filteredInvoices)

avgTicket_unguarded == [num |-> totalSales, den |-> invoiceCount]

(* invoiceCount > 0 ? totalSales / invoiceCount : 0; a quotient is kept as *)
(* numerator and denominator, and a denominator of 0 is a division by 0.   *)
avgTicket ==
    IF invoiceCount > 0 THEN [num |-> totalSales, den |-> invoiceCount]
    ELSE [num |-> 0, den |-> 1]

(* Array.prototype.sort is stable: x goes after every element that does   *)
(* not compare greater than it.                                            *)
InsertByDate(sorted, x) ==
    LET after == {i \in 1..Len(sorted) :
                    Stamp(parseISO(sorted[i].invoice_date)) > Stamp(parseISO(x.invoice_date))}
        k == IF after = {} THEN Len(sorted) + 1
             ELSE CHOOSE i \in after : \A j \in after : i <= j
    IN SubSeq(sorted, 1, k - 1) \o <<x>> \o SubSeq(sorted, k, Len(sorted))

sortedInvoices ==
    LET RECURSIVE Sort(_, _)
        Sort(fi, i) == IF i = 0 THEN <<>>
                       ELSE LET rest == Sort(fi, i - 1) IN InsertByDate(rest, fi[i])
    IN LET fi == filteredInvoices IN Sort(fi, Len(fi))

(* Math.round(totalDays / (n - 1)) for totalDays >= 0: halves round up. *)
avgDaysBetweenPurchases ==
    LET s == sortedInvoices
        n == Len(s)
        RECURSIVE TotalDays(_)
        TotalDays(i) ==
            IF i <= 1 THEN 0
            ELSE TotalDays(i - 1) + differenceInDays(parseISO(s[i].invoice_date),
                                                     parseISO(s[i - 1].invoice_date))
    IN IF n >= 2 THEN (2 * TotalDays(n) + (n - 1)) \div (2 * (n - 1)) ELSE 0

daysSinceLastPurchase_overAllInvoices ==
    LET all == SelectSeq(invoices, LAMBDA inv : inv.client_id = client.id)
        newest == CHOOSE i \in 1..Len(all) : \A j \in 1..Len(all) :
                      Stamp(parseISO(all[j].invoice_date)) <= Stamp(parseISO(all[i].invoice_date))
    IN IF Len(all) > 0
       THEN <<differenceInDays(now, parseISO(all[newest].invoice_date))>>
       ELSE <<>>

(* null is the empty sequence, a number n is <<n>>. *)
daysSinceLastPurchase ==
    LET s == sortedInvoices
    IN IF Len(s) > 0
       THEN <<differenceInDays(now, parseISO(s[Len(s)].invoice_date))>>
       ELSE <<>>

(* JavaScript truthiness of a number-or-null: null and 0 are falsy. *)
Truthy(x) == x # <<>> /\ x[1] # 0

growthOf_zeroIsMinus100(cur, prev) ==
    IF prev > 0 THEN [num |-> (cur - prev) * 100, den |-> prev]
    ELSE IF cur > 0 THEN [num |-> 100, den |-> 1]
    ELSE [num |-> 0 - 100, den |-> 1]

(* prev > 0 ? ((cur - prev) / prev) * 100 : (cur > 0 ? 100 : 0) *)
growthOf(cur, prev) ==
    IF prev > 0 THEN [num |-> (cur - prev) * 100, den |-> prev]
    ELSE IF cur > 0 THEN [num |-> 100, den |-> 1]
    ELSE [num |-> 0, den |-> 1]

(* Comparisons of a rational with an integer. *)
RatLt(g, k) == g.num < k * g.den
RatGt(g, k) == g.num > k * g.den
RatIs(g, k) == g.num = k * g.den

getGrowthForPeriod_allInvoices(currentStart, currentEnd, prevStart, prevEnd) ==
    LET currentInvoices ==
            SelectSeq(SelectSeq(invoices, LAMBDA i : i.client_id = client.id), LAMBDA inv :
                isWithinInterval(parseISO(inv.invoice_date), currentStart, currentEnd))
        prevInvoices ==
            SelectSeq(SelectSeq(invoices, LAMBDA i : i.client_id = client.id), LAMBDA inv :
                isWithinInterval(parseISO(inv.invoice_date), prevStart, prevEnd))
        currentTotal == SumTotalAmount(currentInvoices)
        prevTotal == SumTotalAmount(prevInvoices)
        currentCommission == SumTotalCommission(currentInvoices)
        prevCommission == SumTotalCommission(prevInvoices)
    IN [currentSales |-> currentTotal,
        previousSales |-> prevTotal,
        currentCommission |-> currentCommission,
        prevCommission |-> prevCommission,
        salesGrowth |-> growthOf(currentTotal, prevTotal),
        commissionGrowth |-> growthOf(currentCommission, prevCommission),
        invoiceCount |-> Len(currentInvoices),
        prevInvoiceCount |-> Len(prevInvoices)]

getGrowthForPeriod(currentStart, currentEnd, prevStart, prevEnd) ==
    LET currentInvoices ==
            SelectSeq(filteredInvoices, LAMBDA inv :
                isWithinInterval(parseISO(inv.invoice_date), currentStart, currentEnd))
        prevInvoices ==
            SelectSeq(filteredInvoices, LAMBDA inv :
                isWithinInterval(parseISO(inv.invoice_date), prevStart, prevEnd))
        currentTotal == SumTotalAmount(currentInvoices)
        prevTotal == SumTotalAmount(prevInvoices)
        currentCommission == SumTotalCommission(currentInvoices)
        prevCommission == SumTotalCommission(prevInvoices)
    IN [currentSales |-> currentTotal,
        previousSales |-> prevTotal,
        currentCommission |-> currentCommission,
        prevCommission |-> prevCommission,
        salesGrowth |-> growthOf(currentTotal, prevTotal),
        commissionGrowth |-> growthOf(currentCommission, prevCommission),
        invoiceCount |-> Len(currentInvoices),
        prevInvoiceCount |-> Len(prevInvoices)]

(* The arguments of the three calls: currentStart, currentEnd, prevStart, *)
(* prevEnd.                                                               *)
monthlyWindows ==
    <<currentMonthStart, currentMonthEnd, previousMonthStart, previousMonthEnd>>

quarterlyWindows == <<subMonths(now, 3), now, subMonths(now, 6), subMonths(now, 3)>>

semesterWindows == <<sixMonthsAgo, now, subMonths(now, 12), sixMonthsAgo>>

monthlyGrowth ==
    LET w == monthlyWindows IN getGrowthForPeriod(w[1], w[2], w[3], w[4])

quarterlyGrowth ==
    LET w == quarterlyWindows IN getGrowthForPeriod(w[1], w[2], w[3], w[4])

semesterGrowth ==
    LET w == semesterWindows IN getGrowthForPeriod(w[1], w[2], w[3], w[4])

(* ------------------------------ monthly trend ------------------------- *)

(* format(date, 'yyyy-MM'): the calendar month of the date. *)
monthKey(x) == x.m

(* Map.prototype.set: the value of an existing key is replaced where the   *)
(* key stands, a new key goes last.                                        *)
MonthsMapSet(map, entry) ==
    LET found == {k \in 1..Len(map) : map[k].month = entry.month}
    IN IF found = {} THEN Append(map, entry)
       ELSE [map EXCEPT ![CHOOSE k \in found : TRUE] = entry]

(* for (let i = 11; i >= 0; i--) monthsMap.set(monthKey, {... 0, 0, 0}) *)
emptyMonthsMap ==
    LET RECURSIVE Months(_)
        Months(j) ==
            IF j = 0 THEN <<>>
            ELSE LET before == Months(j - 1)
                     monthDate == subMonths(now, 12 - j)
                 IN MonthsMapSet(before, [month |-> monthKey(monthDate),
                                          sales |-> 0, commission |-> 0, invoices |-> 0])
    IN Months(12)

allClientInvoicesOf(invs) == SelectSeq(invs, LAMBDA inv : inv.client_id = client.id)

allClientInvoices == allClientInvoicesOf(invoices)

(* allClientInvoices.forEach(...): an invoice whose month has no entry is  *)
(* skipped.  monthlyTrend = Array.from(monthsMap.values()).                *)
monthlyTrendOf(invs) ==
    LET all == allClientInvoicesOf(invs)
        empty == emptyMonthsMap
        RECURSIVE Fold(_)
        Fold(i) ==
            IF i = 0 THEN empty
            ELSE LET before == Fold(i - 1)
                     inv == all[i]
                     found == {k \in 1..Len(before) :
                                 before[k].month = monthKey(parseISO(inv.invoice_date))}
                 IN IF found = {} THEN before
                    ELSE [before EXCEPT ![CHOOSE k \in found : TRUE] =
                            [@ EXCEPT !.sales = @ + inv.total_amount,
                                      !.commission = @ + inv.total_commission,
                                      !.invoices = @ + 1]]
    IN Fold(Len(all))

monthlyTrend == monthlyTrendOf(invoices)

(* --------------------------- product analysis ------------------------- *)

NullDate == [m |-> 0 - 1, d |-> 0]

NewProduct(name) ==
    [name |-> name, totalSales |-> 0, totalCommission |-> 0, totalQuantity |-> 0,
     invoiceCount |-> 0, lastMonthSales |-> 0, prevMonthSales |-> 0,
     lastPurchaseDate |-> NullDate]

Accumulate_lastSeenDate(map, name, amount, commission, inv) ==
    LET invDate == parseISO(inv.invoice_date)
        isCurrentMonth == isWithinInterval(invDate, currentMonthStart, currentMonthEnd)
        isPrevMonth == isWithinInterval(invDate, previousMonthStart, previousMonthEnd)
        found == {i \in 1..Len(map) : map[i].name = name}
        existing == IF found = {} THEN NewProduct(name) ELSE map[CHOOSE i \in found : TRUE]
        updated ==
            [existing EXCEPT
                !.totalSales = @ + amount,
                !.totalCommission = @ + commission,
                !.totalQuantity = @ + 1,
                !.invoiceCount = @ + 1,
                !.lastMonthSales = IF isCurrentMonth THEN @ + amount ELSE @,
                !.prevMonthSales = IF isPrevMonth THEN @ + amount ELSE @,
                !.lastPurchaseDate = inv.invoice_date]
    IN IF found = {} THEN Append(map, updated)
       ELSE [map EXCEPT ![CHOOSE i \in found : TRUE] = updated]

(* productMap.get(name) || {...}; the updates; productMap.set(name, existing). *)
(* A Map keeps its keys in insertion order: the map is a sequence of entries.  *)
Accumulate(map, name, amount, commission, inv) ==
    LET invDate == parseISO(inv.invoice_date)
        isCurrentMonth == isWithinInterval(invDate, currentMonthStart, currentMonthEnd)
        isPrevMonth == isWithinInterval(invDate, previousMonthStart, previousMonthEnd)
        found == {i \in 1..Len(map) : map[i].name = name}
        existing == IF found = {} THEN NewProduct(name) ELSE map[CHOOSE i \in found : TRUE]
        updated ==
            [existing EXCEPT
                !.totalSales = @ + amount,
                !.totalCommission = @ + commission,
                !.totalQuantity = @ + 1,
                !.invoiceCount = @ + 1,
                !.lastMonthSales = IF isCurrentMonth THEN @ + amount ELSE @,
                !.prevMonthSales = IF isPrevMonth THEN @ + amount ELSE @,
                !.lastPurchaseDate =
                    IF @ = NullDate \/ Stamp(invDate) > Stamp(parseISO(@))
                    THEN inv.invoice_date ELSE @]
    IN IF found = {} THEN Append(map, updated)
       ELSE [map EXCEPT ![CHOOSE i \in found : TRUE] = updated]

(* inv.products?.forEach(...): an absent list is skipped; an absent        *)
(* rest_amount is undefined, and undefined > 0 is false.                   *)
ProductsOf(inv) == IF "products" \in DOMAIN inv THEN inv.products ELSE <<>>

RestAmountOf(inv) == IF "rest_amount" \in DOMAIN inv THEN inv.rest_amount ELSE 0

AccumulateInvoice_everyLine(map, inv) ==
    LET products == ProductsOf(inv)
        RECURSIVE Lines(_)
        Lines(i) ==
            IF i = 0 THEN map
            ELSE LET p == products[i]
                     before == Lines(i - 1)
                 IN Accumulate(before, p.product_name, p.amount, p.commission, inv)
        withLines == Lines(Len(products))
    IN IF RestAmountOf(inv) > 0
       THEN Accumulate(withLines, "Resto General", inv.rest_amount, inv.rest_commission, inv)
       ELSE withLines

AccumulateInvoice_restAlways(map, inv) ==
    LET products == ProductsOf(inv)
        RECURSIVE Lines(_)
        Lines(i) ==
            IF i = 0 THEN map
            ELSE LET p == products[i]
                     before == Lines(i - 1)
                 IN IF p.amount > 0
                    THEN Accumulate(before, p.product_name, p.amount, p.commission, inv)
                    ELSE before
        withLines == Lines(Len(products))
    IN Accumulate(withLines, "Resto General", RestAmountOf(inv), 0, inv)

AccumulateInvoice(map, inv) ==
    LET products == ProductsOf(inv)
        RECURSIVE Lines(_)
        Lines(i) ==
            IF i = 0 THEN map
            ELSE LET p == products[i]
                     before == Lines(i - 1)
                 IN IF p.amount > 0
                    THEN Accumulate(before, p.product_name, p.amount, p.commission, inv)
                    ELSE before
        withLines == Lines(Len(products))
    IN IF RestAmountOf(inv) > 0
       THEN Accumulate(withLines, "Resto General", inv.rest_amount, inv.rest_commission, inv)
       ELSE withLines

(* filteredInvoices.forEach(inv => ...) over a given sequence of invoices. *)
productMapOf(fi) ==
    LET RECURSIVE Fold(_)
        Fold(i) == IF i = 0 THEN <<>>
                   ELSE LET before == Fold(i - 1) IN AccumulateInvoice(before, fi[i])
    IN Fold(Len(fi))

productMap == LET fi == filteredInvoices IN productMapOf(fi)

(* prev > 0 ? ((last - prev) / prev) * 100 : (last > 0 ? 100 : -100) *)
productGrowth(lastMonthSales, prevMonthSales) ==
    IF prevMonthSales > 0
    THEN [num |-> (lastMonthSales - prevMonthSales) * 100, den |-> prevMonthSales]
    ELSE IF lastMonthSales > 0 THEN [num |-> 100, den |-> 1]
    ELSE [num |-> 0 - 100, den |-> 1]

isGrowing(growth) == RatGt(growth, 15)

isDeclining(growth) == RatLt(growth, 0 - 15)

isStopped(p) == p.lastMonthSales = 0 /\ p.prevMonthSales > 0

recommendation(p, growth) ==
    IF isStopped(p) THEN "stopped"
    ELSE IF isDeclining(growth) THEN "declining"
    ELSE IF isGrowing(growth) THEN "growing"
    ELSE IF p.lastMonthSales > 0 THEN "stable"
    ELSE "no_recent_activity"

AnalyseProduct(p) ==
    LET growth == productGrowth(p.lastMonthSales, p.prevMonthSales)
    IN [name |-> p.name,
        totalSales |-> p.totalSales,
        totalCommission |-> p.totalCommission,
        totalQuantity |-> p.totalQuantity,
        invoiceCount |-> p.invoiceCount,
        lastMonthSales |-> p.lastMonthSales,
        prevMonthSales |-> p.prevMonthSales,
        lastPurchaseDate |-> p.lastPurchaseDate,
        avgPerInvoice |-> IF p.invoiceCount > 0
                          THEN [num |-> p.totalSales, den |-> p.invoiceCount]
                          ELSE [num |-> 0, den |-> 1],
        growth |-> growth,
        percentOfTotal |-> IF totalSales > 0
                           THEN [num |-> p.totalSales * 100, den |-> totalSales]
                           ELSE [num |-> 0, den |-> 1],
        isGrowing |-> isGrowing(growth),
        isDeclining |-> isDeclining(growth),
        isStopped |-> isStopped(p),
        recommendation |-> recommendation(p, growth)]

(* .sort((a, b) => b.totalSales - a.totalSales), a stable sort: x goes  *)
(* after every element whose totalSales is not smaller than its own.     *)
InsertBySales(sorted, x) ==
    LET after == {i \in 1..Len(sorted) : sorted[i].totalSales < x.totalSales}
        k == IF after = {} THEN Len(sorted) + 1
             ELSE CHOOSE i \in after : \A j \in after : i <= j
    IN SubSeq(sorted, 1, k - 1) \o <<x>> \o SubSeq(sorted, k, Len(sorted))

productAnalysis ==
    LET pm == productMap
        RECURSIVE Sort(_)
        Sort(i) == IF i = 0 THEN <<>>
                   ELSE LET rest == Sort(i - 1) IN InsertBySales(rest, AnalyseProduct(pm[i]))
    IN Sort(Len(pm))

topProducts_firstThree == SubSeq(productAnalysis, 1, Min(3, Len(productAnalysis)))

(* productAnalysis.slice(0, 5) and the three filters. *)
topProducts == SubSeq(productAnalysis, 1, Min(5, Len(productAnalysis)))
growingProducts == SelectSeq(productAnalysis, LAMBDA p : p.isGrowing)
decliningProducts == SelectSeq(productAnalysis, LAMBDA p : p.isDeclining)
stoppedProducts == SelectSeq(productAnalysis, LAMBDA p : p.isStopped)

Names(products) == [i \in 1..Len(products) |-> products[i].name]

(* Math.abs(x).toFixed(0): the nearest integer, halves away from zero. *)
AbsToFixed0(g) ==
    LET n == IF g.num < 0 THEN 0 - g.num ELSE g.num
    IN (2 * n + g.den) \div (2 * g.den)

(* ------------------------- alerts and status -------------------------- *)

criticalAlerts_dropOnlyWithoutStopped ==
    LET days == daysSinceLastPurchase
        avg == avgDaysBetweenPurchases
        stopped == stoppedProducts
        overdue ==
            IF Truthy(days) /\ 2 * days[1] > 3 * avg /\ avg > 0
            THEN <<[kind |-> "overdue", days |-> days[1], avg |-> avg]>> ELSE <<>>
        stoppedAlert ==
            IF Len(stopped) > 0
            THEN <<[kind |-> "stopped", count |-> Len(stopped), names |-> Names(stopped)]>>
            ELSE <<>>
        drop ==
            IF Len(stopped) = 0 /\ RatLt(monthlyGrowth.salesGrowth, 0 - 20)
            THEN <<[kind |-> "drop", percent |-> AbsToFixed0(monthlyGrowth.salesGrowth)]>>
            ELSE <<>>
    IN overdue \o stoppedAlert \o drop

criticalAlerts_dropBelowMinus5 ==
    LET days == daysSinceLastPurchase
        avg == avgDaysBetweenPurchases
        stopped == stoppedProducts
        overdue ==
            IF Truthy(days) /\ 2 * days[1] > 3 * avg /\ avg > 0
            THEN <<[kind |-> "overdue", days |-> days[1], avg |-> avg]>> ELSE <<>>
        stoppedAlert ==
            IF Len(stopped) > 0
            THEN <<[kind |-> "stopped", count |-> Len(stopped), names |-> Names(stopped)]>>
            ELSE <<>>
        drop ==
            IF RatLt(monthlyGrowth.salesGrowth, 0 - 5)
            THEN <<[kind |-> "drop", percent |-> AbsToFixed0(monthlyGrowth.salesGrowth)]>>
            ELSE <<>>
    IN overdue \o stoppedAlert \o drop

criticalAlerts ==
    LET days == daysSinceLastPurchase
        avg == avgDaysBetweenPurchases
        stopped == stoppedProducts
        overdue ==
            IF Truthy(days) /\ 2 * days[1] > 3 * avg /\ avg > 0
            THEN <<[kind |-> "overdue", days |-> days[1], avg |-> avg]>> ELSE <<>>
        stoppedAlert ==
            IF Len(stopped) > 0
            THEN <<[kind |-> "stopped", count |-> Len(stopped), names |-> Names(stopped)]>>
            ELSE <<>>
        drop ==
            IF RatLt(monthlyGrowth.salesGrowth, 0 - 20)
            THEN <<[kind |-> "drop", percent |-> AbsToFixed0(monthlyGrowth.salesGrowth)]>>
            ELSE <<>>
    IN overdue \o stoppedAlert \o drop

status_atRiskFirst ==
    LET days == daysSinceLastPurchase
        growth == monthlyGrowth.salesGrowth
    IN IF RatLt(growth, 0 - 20) \/ Len(stoppedProducts) >= 2 THEN "at_risk"
       ELSE IF Truthy(days) /\ days[1] > 60 THEN "inactive"
       ELSE IF RatLt(growth, 0 - 5) THEN "declining"
       ELSE IF RatGt(growth, 15) THEN "growing"
       ELSE "stable"

status_noStoppedRule ==
    LET days == daysSinceLastPurchase
        growth == monthlyGrowth.salesGrowth
    IN IF Truthy(days) /\ days[1] > 60 THEN "inactive"
       ELSE IF RatLt(growth, 0 - 20) THEN "at_risk"
       ELSE IF RatLt(growth, 0 - 5) THEN "declining"
       ELSE IF RatGt(growth, 15) THEN "growing"
       ELSE "stable"

status_decliningBelowMinus10 ==
    LET days == daysSinceLastPurchase
        growth == monthlyGrowth.salesGrowth
    IN IF Truthy(days) /\ days[1] > 60 THEN "inactive"
       ELSE IF RatLt(growth, 0 - 20) \/ Len(stoppedProducts) >= 2 THEN "at_risk"
       ELSE IF RatLt(growth, 0 - 10) THEN "declining"
       ELSE IF RatGt(growth, 15) THEN "growing"
       ELSE "stable"

status ==
    LET days == daysSinceLastPurchase
        growth == monthlyGrowth.salesGrowth
    IN IF Truthy(days) /\ days[1] > 60 THEN "inactive"
       ELSE IF RatLt(growth, 0 - 20) \/ Len(stoppedProducts) >= 2 THEN "at_risk"
       ELSE IF RatLt(growth, 0 - 5) THEN "declining"
       ELSE IF RatGt(growth, 15) THEN "growing"
       ELSE "stable"

(* ---------------------------- explanations ---------------------------- *)

(* growth.toFixed(0): the magnitude rounded to the nearest integer, halves *)
(* up, with the sign of the number.                                        *)
ToFixed0(g) == IF g.num < 0 THEN 0 - AbsToFixed0(g) ELSE AbsToFixed0(g)

(* products.slice(0, 3).map(p => name (growth%)) *)
FirstThree(products) ==
    [i \in 1..Min(3, Len(products)) |->
        [name |-> products[i].name, percent |-> ToFixed0(products[i].growth)]]

(* The entries pushed by lines 342-350, in order; an entry is a record     *)
(* with the kind of the message and the values placed in its text.         *)
whyGrowing ==
    LET growing == growingProducts
        mg == monthlyGrowth
        qg == quarterlyGrowth
        at == avgTicket
    IN (IF Len(growing) > 0
        THEN <<[kind |-> "products", products |-> FirstThree(growing)]>> ELSE <<>>)
       \o (IF mg.invoiceCount > mg.prevInvoiceCount
           THEN <<[kind |-> "frequency", invoiceCount |-> mg.invoiceCount,
                   prevInvoiceCount |-> mg.prevInvoiceCount]>> ELSE <<>>)
       \o (IF at.num * (IF qg.invoiceCount > 1 THEN qg.invoiceCount ELSE 1)
                > qg.currentSales * at.den
           THEN <<[kind |-> "ticket"]>> ELSE <<>>)

whyDeclining_stoppedAlways ==
    LET declining == decliningProducts
        stopped == stoppedProducts
        mg == monthlyGrowth
    IN (IF Len(declining) > 0
        THEN <<[kind |-> "products", products |-> FirstThree(declining)]>> ELSE <<>>)
       \o <<[kind |-> "stopped", names |-> Names(stopped)]>>
       \o (IF mg.invoiceCount < mg.prevInvoiceCount
           THEN <<[kind |-> "frequency", invoiceCount |-> mg.invoiceCount,
                   prevInvoiceCount |-> mg.prevInvoiceCount]>> ELSE <<>>)

(* The entries pushed by lines 352-360, in order. *)
whyDeclining ==
    LET declining == decliningProducts
        stopped == stoppedProducts
        mg == monthlyGrowth
    IN (IF Len(declining) > 0
        THEN <<[kind |-> "products", products |-> FirstThree(declining)]>> ELSE <<>>)
       \o (IF Len(stopped) > 0
           THEN <<[kind |-> "stopped", names |-> Names(stopped)]>> ELSE <<>>)
       \o (IF mg.invoiceCount < mg.prevInvoiceCount
           THEN <<[kind |-> "frequency", invoiceCount |-> mg.invoiceCount,
                   prevInvoiceCount |-> mg.prevInvoiceCount]>> ELSE <<>>)

(* ------------------------- VisitPrepDashboard ------------------------- *)

VisitPeriods == {"1m", "3m", "6m", "1y"}

(* selectedClientId is null until a client is picked. *)
NoClient == "null"

ClientIds == {"c1", "c2"}

monthsBack ==
    IF periodFilter = "1m" THEN 1
    ELSE IF periodFilter = "3m" THEN 3
    ELSE IF periodFilter = "6m" THEN 6
    ELSE 12

periodDates ==
    [start |-> startOfMonth(subMonths(now, monthsBack)),
     end |-> endOfMonth(now),
     previousStart |-> startOfMonth(subMonths(now, monthsBack * 2)),
     previousEnd |-> endOfMonth(subMonths(now, monthsBack + 1))]

(* The invoices of the selected client in the window, and in the window   *)
(* before, out of a given invoices prop.                                   *)
clientInvoicesOf_anyClient(invs) ==
    SelectSeq(invs, LAMBDA inv :
        isWithinInterval(parseISO(inv.invoice_date), periodDates.start, periodDates.end))

clientInvoicesOf(invs) ==
    SelectSeq(invs, LAMBDA inv :
        /\ inv.client_id = selectedClientId
        /\ isWithinInterval(parseISO(inv.invoice_date), periodDates.start, periodDates.end))

previousInvoicesOf(invs) ==
    SelectSeq(invs, LAMBDA inv :
        /\ inv.client_id = selectedClientId
        /\ isWithinInterval(parseISO(inv.invoice_date),
                            periodDates.previousStart, periodDates.previousEnd))

clientInvoices == clientInvoicesOf(invoices)

previousInvoices == previousInvoicesOf(invoices)

(* The products prop: the catalog.  C is never bought, and the invoices    *)
(* also carry a name, X, that is not in the catalog.                       *)
products ==
    <<[id |-> "p1", name |-> "A"], [id |-> "p2", name |-> "B"], [id |-> "p3", name |-> "C"]>>

(* The map of a window: per product name the number of lines, the sum of   *)
(* the amounts and the set of invoices carrying it.  Invoice ids are       *)
(* unique: an invoice is identified by its position in the list.           *)
VisitProductMap(invs) ==
    LET Add(map, prod, id) ==
            LET found == {k \in 1..Len(map) : map[k].name = prod.product_name}
                existing == IF found = {}
                            THEN [name |-> prod.product_name, quantity |-> 0,
                                  total |-> 0, invoices |-> {}]
                            ELSE map[CHOOSE k \in found : TRUE]
                updated == [existing EXCEPT !.quantity = @ + 1,
                                            !.total = @ + prod.amount,
                                            !.invoices = @ \cup {id}]
            IN IF found = {} THEN Append(map, updated)
               ELSE [map EXCEPT ![CHOOSE k \in found : TRUE] = updated]
        RECURSIVE Lines(_, _, _)
        Lines(map, i, j) ==
            IF j = 0 THEN map
            ELSE LET before == Lines(map, i, j - 1)
                 IN Add(before, ProductsOf(invs[i])[j], i)
        RECURSIVE Fold(_)
        Fold(i) == IF i = 0 THEN <<>>
                   ELSE LET before == Fold(i - 1)
                        IN Lines(before, i, Len(ProductsOf(invs[i])))
    IN Fold(Len(invs))

(* productMap.get(name): <<>> is undefined. *)
VisitMapGet(map, name) ==
    LET found == {k \in 1..Len(map) : map[k].name = name}
    IN IF found = {} THEN <<>> ELSE <<map[CHOOSE k \in found : TRUE]>>

(* One row of allProductData. *)
ProductRow(catalogProduct, productMap_, previousProductMap, totalClientSales) ==
    LET soldData == VisitMapGet(productMap_, catalogProduct.name)
        prevData == VisitMapGet(previousProductMap, catalogProduct.name)
        quantity == IF soldData # <<>> THEN soldData[1].quantity ELSE 0
        totalAmount == IF soldData # <<>> THEN soldData[1].total ELSE 0
        invoices_ == IF soldData # <<>> THEN Cardinality(soldData[1].invoices) ELSE 0
        prevTotal == IF prevData # <<>> THEN prevData[1].total ELSE 0
        percent == [num |-> (totalAmount - prevTotal) * 100, den |-> prevTotal]
        trend ==
            IF prevTotal > 0 /\ totalAmount > 0
            THEN [trend |-> IF RatGt(percent, 5) THEN "up"
                            ELSE IF RatLt(percent, 0 - 5) THEN "down" ELSE "stable",
                  trendPercent |-> percent]
            ELSE IF totalAmount > 0 /\ prevTotal = 0
            THEN [trend |-> "up", trendPercent |-> [num |-> 100, den |-> 1]]
            ELSE IF totalAmount = 0 /\ prevTotal > 0
            THEN [trend |-> "down", trendPercent |-> [num |-> 0 - 100, den |-> 1]]
            ELSE [trend |-> "stable", trendPercent |-> [num |-> 0, den |-> 1]]
    IN [productId |-> catalogProduct.id,
        productName |-> catalogProduct.name,
        quantity |-> quantity,
        totalAmount |-> totalAmount,
        invoiceCount |-> invoices_,
        avgPerInvoice |-> IF invoices_ > 0 THEN [num |-> totalAmount, den |-> invoices_]
                          ELSE [num |-> 0, den |-> 1],
        percentOfClientTotal |-> IF totalClientSales > 0
                                 THEN [num |-> totalAmount * 100, den |-> totalClientSales]
                                 ELSE [num |-> 0, den |-> 1],
        trend |-> trend.trend,
        trendPercent |-> trend.trendPercent]

(* allProductData.sort((a, b) => b.totalAmount - a.totalAmount), stable. *)
InsertByTotalAmount(sorted, x) ==
    LET after == {i \in 1..Len(sorted) : sorted[i].totalAmount < x.totalAmount}
        k == IF after = {} THEN Len(sorted) + 1
             ELSE CHOOSE i \in after : \A j \in after : i <= j
    IN SubSeq(sorted, 1, k - 1) \o <<x>> \o SubSeq(sorted, k, Len(sorted))

SumField(rows, F(_)) ==
    LET RECURSIVE S(_)
        S(i) == IF i = 0 THEN 0 ELSE S(i - 1) + F(rows[i])
    IN S(Len(rows))

visitDecliningProducts_ofAllRows(allProductData, soldProducts) ==
    SelectSeq(allProductData, LAMBDA p : p.trend = "down")

(* soldProducts.filter(p => p.trend === 'down') *)
visitDecliningProducts(allProductData, soldProducts) ==
    SelectSeq(soldProducts, LAMBDA p : p.trend = "down")

(* The memoised clientProductData for a given invoices prop; <<>> is the   *)
(* null returned while no client is selected.                              *)
clientProductDataOf(invs) ==
    IF selectedClientId = NoClient THEN <<>>
    ELSE
    LET current == clientInvoicesOf(invs)
        previous == previousInvoicesOf(invs)
        productMap_ == VisitProductMap(current)
        previousProductMap == VisitProductMap(previous)
        Total(e) == e.total
        totalClientSales == SumField(productMap_, Total)
        RECURSIVE Rows(_)
        Rows(i) ==
            IF i = 0 THEN <<>>
            ELSE LET before == Rows(i - 1)
                 IN InsertByTotalAmount(before,
                        ProductRow(products[i], productMap_, previousProductMap,
                                   totalClientSales))
        allProductData == Rows(Len(products))
        soldProducts == SelectSeq(allProductData, LAMBDA p : p.totalAmount > 0)
        notSoldProducts == SelectSeq(allProductData, LAMBDA p : p.totalAmount = 0)
        declining == visitDecliningProducts(allProductData, soldProducts)
        growing == SelectSeq(soldProducts, LAMBDA p : p.trend = "up")
        TotalAmount(p) == p.totalAmount
        Quantity(p) == p.quantity
    IN <<[allProducts |-> allProductData,
          soldProducts |-> soldProducts,
          notSoldProducts |-> notSoldProducts,
          decliningProducts |-> declining,
          growingProducts |-> growing,
          productsToPush |-> SubSeq(notSoldProducts, 1, Min(3, Len(notSoldProducts))),
          opportunityProducts |-> SubSeq(declining, 1, Min(3, Len(declining))),
          totalSales |-> SumField(soldProducts, TotalAmount),
          totalQuantity |-> SumField(soldProducts, Quantity),
          invoicesInPeriod |-> Len(current)]>>

clientProductData == clientProductDataOf(invoices)

(* 1 May and 30 April are the two sides of the default window's start; *)
(* 1 February is in the window before it.                               *)
VisitInvoiceDates ==
    {[m |-> 31, d |-> 1], [m |-> 28, d |-> 1], [m |-> 27, d |-> 30], [m |-> 25, d |-> 1]}

VisitInvoiceSet ==
    {Invoice("c1", dt, ls, 0) : dt \in VisitInvoiceDates,
                               ls \in {<<Line("A", 100)>>, <<Line("B", 50)>>}}
    \cup {Invoice("c2", [m |-> 31, d |-> 1], <<Line("A", 100)>>, 0)}

(* Invoices for the aggregation: rest amounts, a line of amount 0, an      *)
(* invoice with no lines and no rest, an invoice without the optional      *)
(* fields, two three-line invoices, an invoice whose credit line brings    *)
(* its total to 0, and an invoice of another client.                       *)
AggInvoiceSet ==
    LET aug == [m |-> 31, d |-> 1]
        jul == [m |-> 30, d |-> 1]
    IN {Invoice(client.id, dt, ls[1], ls[2]) :
            dt \in {aug, jul},
            ls \in {<<<<Line("A", 100)>>, 20>>, <<<<Line("A", 0), Line("B", 50)>>, 0>>}}
       \cup {[Invoice(client.id, aug, <<>>, 0) EXCEPT !.total_amount = 30,
                                                       !.total_commission = 3],
              [client_id |-> client.id, invoice_date |-> jul,
               total_amount |-> 30, total_commission |-> 3],
              Invoice(client.id, aug, <<Line("D", 10), Line("E", 20), Line("F", 30)>>, 0),
              Invoice(client.id, jul, <<Line("G", 40), Line("H", 50), Line("I", 60)>>, 0),
              Invoice(client.id, aug, <<Line("A", 100), Line("B", 0 - 100)>>, 0),
              Invoice("c2", aug, <<Line("A", 100)>>, 20)}

(* Invoices for the trend and the windows: the current and the previous   *)
(* month, the days three and six months back (31 May, 28 February), the    *)
(* first of the 12 months (September of the year before), the month just   *)
(* before them (31 August of the year before), and another client's        *)
(* invoice.                                                                *)
TrendInvoiceSet ==
    {Invoice(client.id, dt, ls, 0) :
        dt \in {[m |-> 31, d |-> 1], [m |-> 30, d |-> 1], [m |-> 28, d |-> 31],
                [m |-> 25, d |-> 28], [m |-> 20, d |-> 15], [m |-> 19, d |-> 31]},
        ls \in {<<Line("A", 100)>>, <<Line("B", 50)>>}}
    \cup {Invoice("c2", [m |-> 31, d |-> 1], <<Line("A", 100)>>, 0)}

(* Invoices of the worked example: A for 100 and B for 50 in the current   *)
(* month, on two invoices or on one, and A for 80 and B for 80 on one      *)
(* invoice of the previous month.                                          *)
ScenarioInvoiceSet ==
    {Invoice(client.id, [m |-> 31, d |-> 1], <<Line("A", 100)>>, 0),
     Invoice(client.id, [m |-> 31, d |-> 1], <<Line("B", 50)>>, 0),
     Invoice(client.id, [m |-> 31, d |-> 1], <<Line("A", 100), Line("B", 50)>>, 0),
     Invoice(client.id, [m |-> 30, d |-> 21], <<Line("A", 80), Line("B", 80)>>, 0)}

(* Invoices for the visit data: 1 August is in every current window and   *)
(* 1 February in the window before the default one; A is sold for two      *)
(* different amounts, X is not in the catalog, and two invoices belong to  *)
(* another client.                                                         *)
VisitDataInvoiceSet ==
    {Invoice("c1", dt, ls, 0) :
        dt \in {[m |-> 31, d |-> 1], [m |-> 25, d |-> 1]},
        ls \in {<<Line("A", 100)>>, <<Line("A", 60)>>, <<Line("B", 50)>>, <<Line("X", 40)>>}}
    \cup {Invoice("c2", [m |-> 31, d |-> 1], <<Line("B", 50)>>, 0),
          Invoice("c2", [m |-> 25, d |-> 1], <<Line("A", 100)>>, 0)}

(* ----------------------- MatchingManagementCard ----------------------- *)

(* The rows of the persistent_matches table are identified by their id;    *)
(* ids grow with created_at.                                               *)
MatchIds == 1..MaxMatches

(* select('*').order('created_at', { ascending: false }): the rows of the  *)
(* table, newest first.                                                    *)
RECURSIVE orderedByCreatedAtDesc(_)
orderedByCreatedAtDesc(rows) ==
    IF rows = {} THEN <<>>
    ELSE LET newest == CHOOSE r \in rows : \A q \in rows : q <= r
         IN  <<newest>> \o orderedByCreatedAtDesc(rows \ {newest})

(* matches.filter(m => m.id !== id) *)
withoutMatch(list, id) == SelectSeq(list, LAMBDA m : m # id)

(* ------------------------- CSVInvoiceImporter -------------------------- *)

(* matchedProduct?.id of a line whose product is not in the catalog. *)
NoProduct == "undefined"

(* A data row of the file: its NCF, its product name and its quantity     *)
(* (0 is an invalid quantity); dates, clients and prices are valid.        *)
CsvRows == [ncf : {"0001", "0002"}, producto : {"A", "X"}, cantidad : {0, 1}]

CsvTexts == UNION {[1..n -> CsvRows] : n \in 0..MaxCsvRows}

(* products.find(...)?.id : the names of the catalog and of the rows are   *)
(* single letters, so that one includes the other when they are equal.     *)
matchedProductId(producto) ==
    LET found == {k \in 1..Len(products) : products[k].name = producto}
    IN  IF found = {} THEN NoProduct
        ELSE products[CHOOSE k \in found : \A j \in found : k <= j].id

(* parseCSV: the rows are grouped by NCF in the order of first appearance; *)
(* a row with an invalid quantity creates its invoice and adds no line; a  *)
(* line is pushed whether or not its product was matched.  The result is   *)
(* null, written <<>>, when there is no invoice.                           *)
RECURSIVE parseCSV(_)
parseCSV(dataLines) ==
    IF dataLines = <<>> THEN <<>>
    ELSE LET n == Len(dataLines)
             sofar == parseCSV(SubSeq(dataLines, 1, n - 1))
             row == dataLines[n]
             at == {k \in 1..Len(sofar) : sofar[k].ncfSuffix = row.ncf}
             invoiceMap == IF at = {}
                           THEN Append(sofar, [ncfSuffix |-> row.ncf, lines |-> <<>>])
                           ELSE sofar
             k == CHOOSE j \in 1..Len(invoiceMap) : invoiceMap[j].ncfSuffix = row.ncf
             pushed == [productName |-> row.producto,
                        quantity |-> row.cantidad,
                        productId |-> matchedProductId(row.producto)]
         IN  IF row.cantidad <= 0 THEN invoiceMap
             ELSE [invoiceMap EXCEPT ![k].lines = Append(@, pushed)]

(* inv.lines.filter(l => l.productId).map(...) *)
validLinesOf(inv) ==
    LET kept == SelectSeq(inv.lines, LAMBDA l : l.productId # NoProduct)
    IN  [i \in 1..Len(kept) |-> [productId |-> kept[i].productId,
                                 quantity |-> kept[i].quantity]]

(* The argument of onImport, or one element of the argument of            *)
(* onBulkImport.                                                           *)
importData(inv) == [ncfSuffix |-> inv.ncfSuffix, lines |-> validLinesOf(inv)]

(* preview.filter(inv => inv.lines.some(l => l.productId)).map(...) *)
invoicesToImport ==
    LET kept == SelectSeq(preview, LAMBDA inv : Len(validLinesOf(inv)) > 0)
    IN  [i \in 1..Len(kept) |-> importData(kept[i])]

RECURSIVE countValidLines(_)
countValidLines(list) ==
    IF list = <<>> THEN 0
    ELSE Len(validLinesOf(Head(list))) + countValidLines(Tail(list))

totalValidProducts == countValidLines(preview)

(* The import button is rendered when the dialog is open and the preview   *)
(* is not empty, and is disabled while importing or without valid lines.   *)
importButtonEnabled ==
    /\ open
    /\ preview # <<>>
    /\ ~importing
    /\ totalValidProducts # 0

(* ------------------------------ actions ------------------------------- *)

(* Every component starts from its useState defaults. *)
Mounted ==
    /\ invoices = <<>>
    /\ period = "6m"
    /\ now \in {[m |-> nd.m, d |-> nd.d, t |-> t] : nd \in NowDates, t \in {0, 1}}
    /\ periodFilter = "3m"
    /\ selectedClientId = NoClient
    /\ matches = <<>>
    /\ loading = TRUE
    /\ error = FALSE
    /\ persistent_matches = MatchIds
    /\ deletesInFlight = {}
    /\ open = FALSE
    /\ preview = <<>>
    /\ importerLoading = FALSE
    /\ importing = FALSE
    /\ awaitingBulkImport = FALSE
    /\ handedOver = <<>>

(* The importer is given its optional onBulkImport callback. *)
Init ==
    /\ Mounted
    /\ onBulkImportProvided = TRUE

(* The importer with or without its optional onBulkImport callback. *)
InitImport ==
    /\ Mounted
    /\ onBulkImportProvided \in BOOLEAN

setPeriod(p) ==
    /\ p # period
    /\ period' = p
    /\ UNCHANGED <<invoices, now, periodFilter, selectedClientId>>
    /\ UNCHANGED <<cardVars, importerVars>>

InvoicesLoaded(inv) ==
    /\ Len(invoices) < MaxInvoices
    /\ invoices' = Append(invoices, inv)
    /\ UNCHANGED <<period, now, periodFilter, selectedClientId>>
    /\ UNCHANGED <<cardVars, importerVars>>

Next ==
    \/ \E p \in Periods : setPeriod(p)
    \/ \E inv \in InvoiceSet : InvoicesLoaded(inv)

Spec == Init /\ [][Next]_vars

setPeriodFilter(p) ==
    /\ p # periodFilter
    /\ periodFilter' = p
    /\ UNCHANGED <<invoices, period, now, selectedClientId>>
    /\ UNCHANGED <<cardVars, importerVars>>

setSelectedClientId(c) ==
    /\ c # selectedClientId
    /\ selectedClientId' = c
    /\ UNCHANGED <<invoices, period, now, periodFilter>>
    /\ UNCHANGED <<cardVars, importerVars>>

NextVisit ==
    \/ \E p \in VisitPeriods : setPeriodFilter(p)
    \/ \E c \in ClientIds \cup {NoClient} : setSelectedClientId(c)
    \/ \E inv \in VisitInvoiceSet : InvoicesLoaded(inv)

SpecVisit == Init /\ [][NextVisit]_vars

NextAgg ==
    \/ \E p \in Periods : setPeriod(p)
    \/ \E inv \in AggInvoiceSet : InvoicesLoaded(inv)

SpecAgg == Init /\ [][NextAgg]_vars

NextTrend ==
    \/ \E p \in Periods : setPeriod(p)
    \/ \E inv \in TrendInvoiceSet : InvoicesLoaded(inv)

SpecTrend == Init /\ [][NextTrend]_vars

(* The invoices prop updated, for histories of up to MaxScenarioInvoices. *)
ScenarioInvoicesLoaded(inv) ==
    /\ Len(invoices) < MaxScenarioInvoices
    /\ invoices' = Append(invoices, inv)
    /\ UNCHANGED <<period, now, periodFilter, selectedClientId>>
    /\ UNCHANGED <<cardVars, importerVars>>

NextScenario ==
    \/ \E p \in Periods : setPeriod(p)
    \/ \E inv \in ScenarioInvoiceSet : ScenarioInvoicesLoaded(inv)

SpecScenario == Init /\ [][NextScenario]_vars

NextVisitData ==
    \/ \E p \in Periods : setPeriod(p)
    \/ \E p \in VisitPeriods : setPeriodFilter(p)
    \/ \E c \in ClientIds \cup {NoClient} : setSelectedClientId(c)
    \/ \E inv \in VisitDataInvoiceSet : InvoicesLoaded(inv)

SpecVisitData == Init /\ [][NextVisitData]_vars

(* MatchingManagementCard.  fetchMatches is started once when the card is *)
(* mounted and ends in one of two ways.                                    *)
fetchMatchesResolved ==
    /\ loading
    /\ error' = FALSE
    /\ matches' = orderedByCreatedAtDesc(persistent_matches)
    /\ loading' = FALSE
    /\ UNCHANGED <<persistent_matches, deletesInFlight>>
    /\ UNCHANGED <<analyticsVars, importerVars>>

fetchMatchesFailed ==
    /\ loading
    /\ error' = TRUE
    /\ loading' = FALSE
    /\ UNCHANGED <<matches, persistent_matches, deletesInFlight>>
    /\ UNCHANGED <<analyticsVars, importerVars>>

(* A click on the delete button of a listed match: the request is sent,   *)
(* and the handler waits for it holding the `matches` of the render in     *)
(* which the click happened.                                               *)
handleDelete(id) ==
    /\ ~loading
    /\ ~error
    /\ \E k \in 1..Len(matches) : matches[k] = id
    /\ deletesInFlight' = deletesInFlight \cup {[id |-> id, matches |-> matches]}
    /\ UNCHANGED <<matches, loading, error, persistent_matches>>
    /\ UNCHANGED <<analyticsVars, importerVars>>

(* The deletion succeeded: the row is gone and the handler resumes. *)
handleDeleteSucceeded(call) ==
    /\ call \in deletesInFlight
    /\ persistent_matches' = persistent_matches \ {call.id}
    /\ matches' = withoutMatch(call.matches, call.id)
    /\ deletesInFlight' = deletesInFlight \ {call}
    /\ UNCHANGED <<loading, error>>
    /\ UNCHANGED <<analyticsVars, importerVars>>

(* The deletion failed: the handler shows the error and changes nothing.   *)
handleDeleteFailed(call) ==
    /\ call \in deletesInFlight
    /\ deletesInFlight' = deletesInFlight \ {call}
    /\ UNCHANGED <<matches, loading, error, persistent_matches>>
    /\ UNCHANGED <<analyticsVars, importerVars>>

NextMatches ==
    \/ fetchMatchesResolved
    \/ fetchMatchesFailed
    \/ \E id \in MatchIds : handleDelete(id)
    \/ \E call \in deletesInFlight : handleDeleteSucceeded(call)
    \/ \E call \in deletesInFlight : handleDeleteFailed(call)

SpecMatches == Init /\ [][NextMatches]_vars

(* CSVInvoiceImporter. *)
openDialog ==
    /\ ~open
    /\ open' = TRUE
    /\ UNCHANGED <<preview, importerLoading, importing, awaitingBulkImport,
                   handedOver, onBulkImportProvided>>
    /\ UNCHANGED <<analyticsVars, cardVars>>

(* onOpenChange(false): setOpen(false) and resetImport(). *)
closeDialog ==
    /\ open
    /\ open' = FALSE
    /\ preview' = <<>>
    /\ UNCHANGED <<importerLoading, importing, awaitingBulkImport,
                   handedOver, onBulkImportProvided>>
    /\ UNCHANGED <<analyticsVars, cardVars>>

(* The Cancelar button: setOpen(false) alone. *)
cancelDialog ==
    /\ open
    /\ open' = FALSE
    /\ UNCHANGED <<preview, importerLoading, importing, awaitingBulkImport,
                   handedOver, onBulkImportProvided>>
    /\ UNCHANGED <<analyticsVars, cardVars>>

handleFileChange ==
    /\ open
    /\ ~importerLoading
    /\ importerLoading' = TRUE
    /\ UNCHANGED <<open, preview, importing, awaitingBulkImport,
                   handedOver, onBulkImportProvided>>
    /\ UNCHANGED <<analyticsVars, cardVars>>

readerOnload(text) ==
    /\ importerLoading
    /\ preview' = parseCSV(text)
    /\ importerLoading' = FALSE
    /\ UNCHANGED <<open, importing, awaitingBulkImport,
                   handedOver, onBulkImportProvided>>
    /\ UNCHANGED <<analyticsVars, cardVars>>

readerOnerror ==
    /\ importerLoading
    /\ importerLoading' = FALSE
    /\ UNCHANGED <<open, preview, importing, awaitingBulkImport,
                   handedOver, onBulkImportProvided>>
    /\ UNCHANGED <<analyticsVars, cardVars>>

(* The end of handleImport on the paths that import something. *)
importDone ==
    /\ importing' = FALSE
    /\ open' = FALSE
    /\ preview' = <<>>

(* A click on the import button, up to the end of the handler or to its    *)
(* await.  handedOver records each call of a callback with its argument.   *)
handleImport ==
    /\ importButtonEnabled
    /\ Len(handedOver) < MaxImports
    /\ IF Len(preview) = 1
       THEN IF Len(validLinesOf(preview[1])) = 0
            THEN /\ importing' = FALSE
                 /\ UNCHANGED <<open, preview, awaitingBulkImport, handedOver>>
            ELSE /\ handedOver' = Append(handedOver,
                        [callback |-> "onImport", data |-> <<importData(preview[1])>>])
                 /\ importDone
                 /\ UNCHANGED awaitingBulkImport
       ELSE IF onBulkImportProvided
            THEN IF Len(invoicesToImport) = 0
                 THEN /\ importing' = FALSE
                      /\ UNCHANGED <<open, preview, awaitingBulkImport, handedOver>>
                 ELSE /\ handedOver' = Append(handedOver,
                             [callback |-> "onBulkImport", data |-> invoicesToImport])
                      /\ importing' = TRUE
                      /\ awaitingBulkImport' = TRUE
                      /\ UNCHANGED <<open, preview>>
            ELSE /\ handedOver' = Append(handedOver,
                        [callback |-> "onImport", data |-> <<importData(preview[1])>>])
                 /\ importDone
                 /\ UNCHANGED awaitingBulkImport
    /\ UNCHANGED <<importerLoading, onBulkImportProvided>>
    /\ UNCHANGED <<analyticsVars, cardVars>>

(* The promise of onBulkImport is fulfilled: the handler resumes. *)
onBulkImportResolved ==
    /\ awaitingBulkImport
    /\ awaitingBulkImport' = FALSE
    /\ importDone
    /\ UNCHANGED <<importerLoading, handedOver, onBulkImportProvided>>
    /\ UNCHANGED <<analyticsVars, cardVars>>

(* The promise of onBulkImport is rejected: the await throws, nothing      *)
(* catches it and the handler ends there.                                  *)
onBulkImportRejected ==
    /\ awaitingBulkImport
    /\ awaitingBulkImport' = FALSE
    /\ UNCHANGED <<open, preview, importerLoading, importing,
                   handedOver, onBulkImportProvided>>
    /\ UNCHANGED <<analyticsVars, cardVars>>

NextImport ==
    \/ openDialog
    \/ closeDialog
    \/ cancelDialog
    \/ handleFileChange
    \/ \E text \in CsvTexts : readerOnload(text)
    \/ readerOnerror
    \/ handleImport
    \/ onBulkImportResolved
    \/ onBulkImportRejected

SpecImport == InitImport /\ [][NextImport]_vars

(* The promise returned by onBulkImport settles. *)
FairSpecImport ==
    SpecImport /\ WF_vars(onBulkImportResolved \/ onBulkImportRejected)

(* ------------------------------ claims -------------------------------- *)

Growths == {monthlyGrowth, quarterlyGrowth, semesterGrowth}

AlertKinds == LET a == criticalAlerts IN [i \in 1..Len(a) |-> a[i].kind]

(* C1: every client-level growth figure follows the rule: with a positive  *)
(* previous total it is (cur - prev) / prev * 100 (so -100 when cur = 0);  *)
(* with a zero previous total it is 100 when cur > 0 and 0 when cur = 0.   *)
C1_ClientGrowthRule ==
    \A g \in Growths :
        /\ g.currentSales >= 0 /\ g.previousSales >= 0 /\ g.salesGrowth.den > 0
        /\ g.previousSales > 0 =>
              g.salesGrowth.num * g.previousSales
                  = (g.currentSales - g.previousSales) * 100 * g.salesGrowth.den
        /\ (g.previousSales > 0 /\ g.currentSales = 0) => RatIs(g.salesGrowth, 0 - 100)
        /\ (g.previousSales = 0 /\ g.currentSales > 0) => RatIs(g.salesGrowth, 100)
        /\ (g.previousSales = 0 /\ g.currentSales = 0) => RatIs(g.salesGrowth, 0)

(* All four cases of the rule occur in one result. *)
C1_Witness ==
    /\ monthlyGrowth.previousSales > 0 /\ monthlyGrowth.currentSales > 0
    /\ monthlyGrowth.currentSales # monthlyGrowth.previousSales
    /\ quarterlyGrowth.previousSales = 0 /\ quarterlyGrowth.currentSales > 0
    /\ semesterGrowth.previousSales = 0 /\ semesterGrowth.currentSales > 0

C1_WitnessZero ==
    /\ Len(filteredInvoices) > 0
    /\ monthlyGrowth.previousSales = 0 /\ monthlyGrowth.currentSales = 0
    /\ RatIs(monthlyGrowth.salesGrowth, 0)

C1_WitnessSemester ==
    /\ semesterGrowth.previousSales > 0 /\ semesterGrowth.currentSales > 0
    /\ quarterlyGrowth.previousSales > 0 /\ quarterlyGrowth.currentSales = 0

(* C2: per-product growth follows the same rule as the client-level one, *)
(* in particular it is 0 for a product with no sales in the current and   *)
(* in the previous calendar month.                                         *)
C2_ProductGrowthRule ==
    LET pa == productAnalysis IN
    \A i \in 1..Len(pa) :
        LET p == pa[i]
        IN /\ p.prevMonthSales > 0 =>
                 p.growth.num * p.prevMonthSales
                     = (p.lastMonthSales - p.prevMonthSales) * 100 * p.growth.den
           /\ (p.prevMonthSales = 0 /\ p.lastMonthSales > 0) => RatIs(p.growth, 100)
           /\ (p.prevMonthSales = 0 /\ p.lastMonthSales = 0) => RatIs(p.growth, 0)

InList(p, list) == \E i \in 1..Len(list) : list[i].name = p.name

(* C3: a product with previous-month sales and no current-month sales is  *)
(* in stoppedProducts, and a stopped product is in neither                 *)
(* decliningProducts nor growingProducts.                                  *)
C3_StoppedExclusive ==
    LET pa == productAnalysis
        stopped == stoppedProducts
        declining == decliningProducts
        growing == growingProducts
    IN \A i \in 1..Len(pa) :
        LET p == pa[i]
        IN /\ (p.prevMonthSales > 0 /\ p.lastMonthSales = 0) => InList(p, stopped)
           /\ InList(p, stopped) => ~InList(p, declining) /\ ~InList(p, growing)

(* C4: more than 60 days since the last purchase gives status inactive,   *)
(* whatever the monthly growth and the stopped products are.               *)
C4_InactivePriority ==
    (daysSinceLastPurchase # <<>> /\ daysSinceLastPurchase[1] > 60) => status = "inactive"

(* 61 days since the last purchase while the at_risk rule holds both ways. *)
C4_Witness ==
    /\ daysSinceLastPurchase = <<61>>
    /\ RatLt(monthlyGrowth.salesGrowth, 0 - 20)
    /\ Len(stoppedProducts) >= 2
    /\ status = "inactive"

(* C5: the status is the first matching rule of: inactive (days > 60),    *)
(* at_risk (growth < -20 or at least 2 stopped products), declining        *)
(* (growth < -5), growing (growth > 15), stable.                           *)
C5_StatusChain ==
    LET d == daysSinceLastPurchase
        g == monthlyGrowth.salesGrowth
        inactive == d # <<>> /\ d[1] > 60
        atRisk == g.num < (0 - 20) * g.den \/ Len(stoppedProducts) >= 2
        declining == g.num < (0 - 5) * g.den
        growing == g.num > 15 * g.den
        status_ == status
    IN /\ status_ \in {"inactive", "at_risk", "declining", "growing", "stable"}
       /\ status_ = "inactive" <=> inactive
       /\ status_ = "at_risk" <=> ~inactive /\ atRisk
       /\ status_ = "declining" <=> ~inactive /\ ~atRisk /\ declining
       /\ status_ = "growing" <=> ~inactive /\ ~atRisk /\ ~declining /\ growing
       /\ status_ = "stable" <=> ~inactive /\ ~atRisk /\ ~declining /\ ~growing

(* at_risk decided by the stopped products alone, the sales growing. *)
C5_Witness ==
    /\ status = "at_risk"
    /\ Len(stoppedProducts) >= 2
    /\ RatGt(monthlyGrowth.salesGrowth, 15)

C5_WitnessDeclining == status = "declining" /\ RatIs(monthlyGrowth.salesGrowth, 0 - 20)

C5_WitnessGrowing == status = "growing"

C5_WitnessStable == status = "stable" /\ Len(filteredInvoices) > 0

(* C6: the alert list is the sub-sequence of [overdue, stopped, drop]     *)
(* whose conditions hold: overdue iff avg > 0 and days > 1.5 * avg,        *)
(* stopped iff a product is stopped, drop iff monthly growth < -20.        *)
C6_AlertList ==
    LET d == daysSinceLastPurchase
        avg == avgDaysBetweenPurchases
        g == monthlyGrowth.salesGrowth
        overdue == avg > 0 /\ d # <<>> /\ 2 * d[1] > 3 * avg
        pa == productAnalysis
        stopped == \E i \in 1..Len(pa) : pa[i].isStopped
        drop == g.num < (0 - 20) * g.den
        expected == (IF overdue THEN <<"overdue">> ELSE <<>>)
                    \o (IF stopped THEN <<"stopped">> ELSE <<>>)
                    \o (IF drop THEN <<"drop">> ELSE <<>>)
    IN AlertKinds = expected

(* Stopped products and a significant drop reported together, no overdue. *)
C6_Witness == AlertKinds = <<"stopped", "drop">>

C6_WitnessOverdue == AlertKinds = <<"overdue", "stopped">>

C6_WitnessNone == AlertKinds = <<>> /\ Len(filteredInvoices) = 2

(* Alphabetical order of the product names in use. *)
NameRank(name) ==
    CASE name = "A" -> 1 [] name = "B" -> 2 [] name = "C" -> 3 [] OTHER -> 4

(* C7: productAnalysis is sorted by cumulative sales descending, products *)
(* with equal cumulative sales by name ascending.                          *)
C7_SortedBySalesThenName ==
    LET pa == productAnalysis
    IN \A i, j \in 1..Len(pa) :
          i < j => \/ pa[i].totalSales > pa[j].totalSales
                   \/ /\ pa[i].totalSales = pa[j].totalSales
                      /\ NameRank(pa[i].name) < NameRank(pa[j].name)

(* C8: each product gets the recommendation of the first class it is in: *)
(* stopped, declining, growing, stable with sales, no recent activity; a  *)
(* product with no sales in the current and the previous month gets the   *)
(* no-recent-activity one.                                                 *)
C8_RecommendationByClass ==
    LET pa == productAnalysis
    IN \A i \in 1..Len(pa) :
          LET last == pa[i].lastMonthSales
              prev == pa[i].prevMonthSales
              expected ==
                  IF prev > 0 /\ last = 0 THEN "stopped"
                  ELSE IF prev > 0 /\ (last - prev) * 100 < (0 - 15) * prev THEN "declining"
                  ELSE IF \/ prev > 0 /\ (last - prev) * 100 > 15 * prev
                          \/ prev = 0 /\ last > 0 THEN "growing"
                  ELSE IF last > 0 THEN "stable"
                  ELSE "no_recent_activity"
          IN pa[i].recommendation = expected

(* The amounts of the lines called name on the client's invoices dated in *)
(* calendar month m, over all the invoices the view was given.             *)
MonthLineSum(name, m) ==
    LET LineSum(lines) ==
            LET RECURSIVE S(_)
                S(k) == IF k = 0 THEN 0
                        ELSE S(k - 1) + (IF lines[k].product_name = name
                                         THEN lines[k].amount ELSE 0)
            IN S(Len(lines))
        RECURSIVE T(_)
        T(i) == IF i = 0 THEN 0
                ELSE T(i - 1) + (IF /\ invoices[i].client_id = client.id
                                    /\ invoices[i].invoice_date.m = m
                                 THEN LineSum(invoices[i].products) ELSE 0)
    IN T(Len(invoices))

(* C9: a product's current-month and previous-month sales are the sums of *)
(* its lines over all of the client's invoices of the calendar month of   *)
(* now and of the month before, whatever period is selected.               *)
C9_MonthSalesOverAllInvoices ==
    LET pa == productAnalysis
    IN \A i \in 1..Len(pa) :
          /\ pa[i].lastMonthSales = MonthLineSum(pa[i].name, now.m)
          /\ pa[i].prevMonthSales = MonthLineSum(pa[i].name, now.m - 1)

PeriodMonths == [p \in {"1m", "3m", "6m", "1y"} |->
                    CASE p = "1m" -> 1 [] p = "3m" -> 3 [] p = "6m" -> 6 [] OTHER -> 12]

(* C10: under a bounded period of n months an invoice of the client is in *)
(* the window iff it is dated from the first day of the month n months    *)
(* before now to the last day of the current month.                        *)
C10_MonthAlignedWindow ==
    period # "all" =>
        LET fi == filteredInvoices
        IN \A i \in 1..Len(invoices) :
              invoices[i].client_id = client.id =>
                  ((\E j \in 1..Len(fi) : fi[j] = invoices[i])
                     <=> /\ invoices[i].invoice_date.m >= now.m - PeriodMonths[period]
                         /\ invoices[i].invoice_date.m <= now.m)

(* Calendar months spanned by an interval of whole months. *)
MonthsSpanned(start, end) == end.m - start.m + 1

(* C11: the previous window has as many calendar months as the current   *)
(* one and ends right before the current one starts.                      *)
C11_PreviousWindowEqualLength ==
    LET pd == periodDates
    IN /\ MonthsSpanned(pd.previousStart, pd.previousEnd) = MonthsSpanned(pd.start, pd.end)
       /\ Stamp(pd.previousEnd) < Stamp(pd.start)
       /\ pd.previousEnd.m + 1 = pd.start.m
       /\ pd.previousEnd.d = DaysInMonth(pd.previousEnd.m) /\ pd.start.d = 1

(* C12: no invoice is counted both in the current and in the previous    *)
(* total of a growth comparison: the visit-preparation windows and the    *)
(* monthly, quarterly and semester comparisons of the client detail view. *)
C12_WindowsNeverOverlap ==
    LET fi == filteredInvoices
        pd == periodDates
        InBoth(inv, w) ==
            /\ isWithinInterval(parseISO(inv.invoice_date), w[1], w[2])
            /\ isWithinInterval(parseISO(inv.invoice_date), w[3], w[4])
    IN /\ \A i \in 1..Len(fi) :
             \A w \in {monthlyWindows, quarterlyWindows, semesterWindows} : ~InBoth(fi[i], w)
       /\ \A i \in 1..Len(invoices) :
             ~InBoth(invoices[i], <<pd.start, pd.end, pd.previousStart, pd.previousEnd>>)

(* Sum of f over a finite set. *)
SumOver(S, f(_)) ==
    LET RECURSIVE Sum(_)
        Sum(T) == IF T = {} THEN 0
                  ELSE LET x == CHOOSE y \in T : TRUE IN f(x) + Sum(T \ {x})
    IN Sum(S)

(* The product map against the per-name figures taken directly from the    *)
(* invoices: a contribution <<i, j>> is line j of invoice i, or the rest   *)
(* amount of invoice i when j = 0.                                         *)
AggregatesMatch(positiveOnly) ==
    LET fi == filteredInvoices
        pm == productMap
        Contribs(name) ==
            {c \in (1..Len(fi)) \X (0..3) :
                IF c[2] = 0
                THEN name = "Resto General" /\ RestAmountOf(fi[c[1]]) > 0
                ELSE /\ c[2] <= Len(ProductsOf(fi[c[1]]))
                     /\ ProductsOf(fi[c[1]])[c[2]].product_name = name
                     /\ (positiveOnly => ProductsOf(fi[c[1]])[c[2]].amount > 0)}
        Amount(c) == IF c[2] = 0 THEN fi[c[1]].rest_amount
                     ELSE ProductsOf(fi[c[1]])[c[2]].amount
        Commission(c) == IF c[2] = 0 THEN fi[c[1]].rest_commission
                         ELSE ProductsOf(fi[c[1]])[c[2]].commission
        DateOf(c) == fi[c[1]].invoice_date
    IN /\ \A k \in 1..Len(pm) : Contribs(pm[k].name) # {}
       /\ \A name \in {"A", "B", "D", "E", "F", "G", "H", "I", "Resto General"} :
            LET cs == Contribs(name)
                entries == {k \in 1..Len(pm) : pm[k].name = name}
            IN IF cs = {} THEN entries = {}
               ELSE /\ Cardinality(entries) = 1
                    /\ \A k \in entries :
                        /\ pm[k].totalSales = SumOver(cs, Amount)
                        /\ pm[k].totalCommission = SumOver(cs, Commission)
                        /\ pm[k].totalQuantity = Cardinality(cs)
                        /\ \E c \in cs : pm[k].lastPurchaseDate = DateOf(c)
                        /\ \A c \in cs :
                            Stamp(parseISO(DateOf(c))) <= Stamp(parseISO(pm[k].lastPurchaseDate))

(* C13, as stated: for every product name, the entry's totalSales,         *)
(* totalCommission and occurrence count are the sum of the amounts, the    *)
(* sum of the commissions and the number of all the line items of the      *)
(* in-window invoices carrying that name, its lastPurchaseDate the latest  *)
(* issue date among them, and the rest amounts are accumulated the same    *)
(* way under 'Resto General'.                                              *)
C13_EveryLineItem == AggregatesMatch(FALSE)

(* C13, amended: the same figures taken over the line items whose amount   *)
(* is greater than 0 and the rest amounts greater than 0; a name with no   *)
(* such line has no entry.                                                 *)
C13_EveryPositiveLineItem == AggregatesMatch(TRUE)

(* A rest amount accumulated over two invoices, the later one first. *)
C13_Witness ==
    LET fi == filteredInvoices
        pm == productMap
    IN /\ Len(fi) = 2
       /\ Stamp(parseISO(fi[1].invoice_date)) > Stamp(parseISO(fi[2].invoice_date))
       /\ \E k \in 1..Len(pm) :
            /\ pm[k].name = "Resto General"
            /\ pm[k].totalQuantity = 2
            /\ pm[k].lastPurchaseDate = fi[1].invoice_date

(* A line of amount 0 next to a counted line of the same name. *)
C13_WitnessZeroLine ==
    LET fi == filteredInvoices
        pm == productMap
    IN /\ \E i \in 1..Len(fi) : \E j \in 1..Len(ProductsOf(fi[i])) :
            ProductsOf(fi[i])[j].product_name = "A" /\ ProductsOf(fi[i])[j].amount = 0
       /\ \E k \in 1..Len(pm) : pm[k].name = "A" /\ pm[k].totalQuantity = 1

(* C14: an in-window invoice with an empty or absent line-item list and a *)
(* zero or absent rest amount adds 1 to invoiceCount and its total_amount  *)
(* to totalSales, and creates or changes no product entry: compared with   *)
(* the same invoices without it, the count is one more, the sales are      *)
(* higher by its total_amount, and the product map is the same.            *)
C14_EmptyInvoiceCountsOnly ==
    LET fi == filteredInvoices
        pm == productMap
    IN \A i \in 1..Len(fi) :
          (ProductsOf(fi[i]) = <<>> /\ RestAmountOf(fi[i]) = 0)
          => LET without == SubSeq(fi, 1, i - 1) \o SubSeq(fi, i + 1, Len(fi))
             IN /\ invoiceCount = Len(without) + 1
                /\ totalSales = SumTotalAmount(without) + fi[i].total_amount
                /\ pm = productMapOf(without)

(* An invoice without the optional fields loaded after an invoice that has *)
(* product entries, both in the window.                                    *)
C14_Witness ==
    /\ Len(invoices) = 2
    /\ Len(filteredInvoices) = 2
    /\ "products" \notin DOMAIN invoices[2]
    /\ "rest_amount" \notin DOMAIN invoices[2]
    /\ invoices[2].total_amount > 0
    /\ productMap # <<>>

(* The same with an empty list and a rest amount of 0. *)
C14_WitnessEmpty ==
    /\ Len(invoices) = 2
    /\ Len(filteredInvoices) = 2
    /\ "products" \in DOMAIN invoices[2] /\ invoices[2].products = <<>>
    /\ "rest_amount" \in DOMAIN invoices[2] /\ invoices[2].rest_amount = 0
    /\ productMap # <<>>

(* The permutations of 1..n. *)
Perms(n) == {f \in [1..n -> 1..n] : \A i, j \in 1..n : f[i] = f[j] => i = j}

(* The invoice with its line items in every order. *)
LineOrders(inv) ==
    IF "products" \notin DOMAIN inv THEN {inv}
    ELSE {[inv EXCEPT !.products = [i \in 1..Len(inv.products) |-> inv.products[f[i]]]] :
            f \in Perms(Len(inv.products))}

(* Every sequence made of the invoices of fi in some order, each with its  *)
(* line items in some order.                                               *)
Rearrangements(fi) ==
    UNION {LET RECURSIVE Build(_)
               Build(i) == IF i = 0 THEN {<<>>}
                           ELSE LET shorter == Build(i - 1)
                                IN {Append(s, v) : s \in shorter, v \in LineOrders(fi[q[i]])}
           IN Build(Len(fi)) : q \in Perms(Len(fi))}

EntriesOf(map) == {map[k] : k \in 1..Len(map)}

C17_NoInvoices ==
    (\A i \in 1..Len(invoices) : invoices[i].client_id # client.id)
    => /\ status = "stable"
       /\ \A g \in {monthlyGrowth, quarterlyGrowth, semesterGrowth} :
            RatIs(g.salesGrowth, 0) /\ RatIs(g.commissionGrowth, 0)
       /\ criticalAlerts = <<>>
       /\ productAnalysis = <<>>
       /\ topProducts = <<>>
       /\ growingProducts = <<>>
       /\ decliningProducts = <<>>
       /\ stoppedProducts = <<>>

(* Invoices are loaded, all of another client. *)
C17_Witness ==
    /\ Len(invoices) > 0
    /\ \A i \in 1..Len(invoices) : invoices[i].client_id # client.id
    /\ filteredInvoices = <<>>

(* C18: no ratio of the result is a division by zero: avgTicket, each     *)
(* product's percentOfTotal, avgPerInvoice and growth, and every sales and *)
(* commission growth figure have a non-zero denominator, and where the     *)
(* quantity divided by is 0 the value is the fixed number of the rule.     *)
C18_RatiosDefined ==
    LET pa == productAnalysis
        ts == totalSales
    IN /\ avgTicket.den > 0
       /\ invoiceCount = 0 => RatIs(avgTicket, 0)
       /\ \A k \in 1..Len(pa) :
            /\ pa[k].percentOfTotal.den > 0
            /\ ts = 0 => RatIs(pa[k].percentOfTotal, 0)
            /\ pa[k].avgPerInvoice.den > 0
            /\ pa[k].growth.den > 0
            /\ pa[k].prevMonthSales = 0
                => RatIs(pa[k].growth, 100) \/ RatIs(pa[k].growth, 0 - 100)
       /\ \A g \in {monthlyGrowth, quarterlyGrowth, semesterGrowth} :
            /\ g.salesGrowth.den > 0
            /\ g.commissionGrowth.den > 0
            /\ g.previousSales = 0
                => RatIs(g.salesGrowth, 100) \/ RatIs(g.salesGrowth, 0)
            /\ g.prevCommission = 0
                => RatIs(g.commissionGrowth, 100) \/ RatIs(g.commissionGrowth, 0)

(* Products are listed while the total sales are 0, and the previous month *)
(* has no sales.                                                           *)
C18_Witness ==
    /\ invoiceCount > 0
    /\ totalSales = 0
    /\ productAnalysis # <<>>
    /\ monthlyGrowth.previousSales = 0

(* No invoice in the window while the client has invoices. *)
C18_WitnessNoInvoices ==
    /\ invoiceCount = 0
    /\ \E i \in 1..Len(invoices) : invoices[i].client_id = client.id

(* The positions of the entries of a kind in an explanation list. *)
EntriesOfKind(list, kind) == {k \in 1..Len(list) : list[k].kind = kind}

(* C19: in whyGrowing (resp. whyDeclining) the product entry is present    *)
(* iff some product is growing (resp. declining) and names at most 3       *)
(* products, the frequency entry is present iff the current month has more *)
(* (resp. fewer) invoices than the previous month, and whyDeclining has    *)
(* the stopped-products entry iff some product is stopped, naming every    *)
(* stopped product; no kind of entry appears twice.                        *)
C19_ExplanationEntries ==
    LET wg == whyGrowing
        wd == whyDeclining
        pa == productAnalysis
        mg == monthlyGrowth
        stoppedNames == {pa[k].name : k \in {j \in 1..Len(pa) : pa[j].isStopped}}
    IN /\ \A kind \in {"products", "frequency", "ticket", "stopped"} :
            /\ Cardinality(EntriesOfKind(wg, kind)) <= 1
            /\ Cardinality(EntriesOfKind(wd, kind)) <= 1
       /\ EntriesOfKind(wg, "products") # {} <=> \E k \in 1..Len(pa) : pa[k].isGrowing
       /\ EntriesOfKind(wd, "products") # {} <=> \E k \in 1..Len(pa) : pa[k].isDeclining
       /\ \A k \in EntriesOfKind(wg, "products") :
            /\ Len(wg[k].products) \in 1..3
            /\ \A i \in 1..Len(wg[k].products) :
                 \E j \in 1..Len(pa) : pa[j].isGrowing /\ pa[j].name = wg[k].products[i].name
       /\ \A k \in EntriesOfKind(wd, "products") :
            /\ Len(wd[k].products) \in 1..3
            /\ \A i \in 1..Len(wd[k].products) :
                 \E j \in 1..Len(pa) : pa[j].isDeclining /\ pa[j].name = wd[k].products[i].name
       /\ EntriesOfKind(wg, "frequency") # {} <=> mg.invoiceCount > mg.prevInvoiceCount
       /\ EntriesOfKind(wd, "frequency") # {} <=> mg.invoiceCount < mg.prevInvoiceCount
       /\ EntriesOfKind(wg, "stopped") = {}
       /\ EntriesOfKind(wd, "stopped") # {} <=> stoppedNames # {}
       /\ \A k \in EntriesOfKind(wd, "stopped") :
            {wd[k].names[i] : i \in 1..Len(wd[k].names)} = stoppedNames

(* Both lists have a product entry and several products are stopped. *)
C19_Witness ==
    /\ EntriesOfKind(whyGrowing, "products") # {}
    /\ EntriesOfKind(whyDeclining, "products") # {}
    /\ \E k \in EntriesOfKind(whyDeclining, "stopped") : Len(whyDeclining[k].names) >= 3

(* More than 3 growing products and a higher purchase frequency. *)
C19_WitnessFirstThree ==
    /\ Len(growingProducts) > 3
    /\ \E k \in EntriesOfKind(whyGrowing, "products") : Len(whyGrowing[k].products) = 3
    /\ EntriesOfKind(whyGrowing, "frequency") # {}

(* Fewer invoices than the previous month and nothing growing. *)
C19_WitnessLowerFrequency ==
    /\ EntriesOfKind(whyDeclining, "frequency") # {}
    /\ EntriesOfKind(whyGrowing, "products") = {}

(* The list holds exactly the elements of pa at the flagged positions, in  *)
(* the order of pa: its i-th element is the one at the i-th flagged        *)
(* position.                                                               *)
IsFilterOf(list, pa, flagged) ==
    /\ Len(list) = Cardinality(flagged)
    /\ \A k \in flagged :
         list[Cardinality({j \in flagged : j <= k})] = pa[k]

(* C20: topProducts is the first min(5, n) elements of productAnalysis,    *)
(* none of the others having higher cumulative sales, and growingProducts, *)
(* decliningProducts and stoppedProducts are exactly the products whose    *)
(* growing, declining, resp. stopped flag is set, in the order of          *)
(* productAnalysis.                                                        *)
C20_SubListsAreFilters ==
    LET pa == productAnalysis
        top == topProducts
        n == Len(pa)
    IN /\ Len(top) = (IF n < 5 THEN n ELSE 5)
       /\ \A i \in 1..Len(top) : top[i] = pa[i]
       /\ \A i \in 1..Len(top) : \A k \in (Len(top) + 1)..n :
            pa[k].totalSales <= top[i].totalSales
       /\ IsFilterOf(growingProducts, pa, {k \in 1..n : pa[k].isGrowing})
       /\ IsFilterOf(decliningProducts, pa, {k \in 1..n : pa[k].isDeclining})
       /\ IsFilterOf(stoppedProducts, pa, {k \in 1..n : pa[k].isStopped})

(* More than 5 products, some growing and some stopped. *)
C20_Witness ==
    /\ Len(productAnalysis) > 5
    /\ Len(topProducts) = 5
    /\ Len(growingProducts) >= 2
    /\ Len(stoppedProducts) >= 2
    /\ Len(decliningProducts) < Len(productAnalysis)

(* C21: monthlyTrend has exactly 12 points, for the 12 consecutive         *)
(* calendar months ending with the month of now, oldest first; the sales,  *)
(* commission and invoice count of a point are the sums over all the       *)
(* invoices of the client dated in its month, whatever the period, and an  *)
(* invoice outside the 12 months is in no point.                           *)
C21_TwelveMonthTrend ==
    LET mt == monthlyTrend
        InMonth(m) == {i \in 1..Len(invoices) :
                         /\ invoices[i].client_id = client.id
                         /\ invoices[i].invoice_date.m = m}
        Amount(i) == invoices[i].total_amount
        Commission(i) == invoices[i].total_commission
    IN /\ Len(mt) = 12
       /\ \A k \in 1..Len(mt) :
            /\ mt[k].month = now.m - 12 + k
            /\ mt[k].sales = SumOver(InMonth(mt[k].month), Amount)
            /\ mt[k].commission = SumOver(InMonth(mt[k].month), Commission)
            /\ mt[k].invoices = Cardinality(InMonth(mt[k].month))

(* The period leaves out an invoice that the trend counts, and another     *)
(* invoice of the client is older than the 12 months.                      *)
C21_Witness ==
    /\ period = "1m"
    /\ filteredInvoices = <<>>
    /\ \E i \in 1..Len(invoices) :
         invoices[i].client_id = client.id /\ invoices[i].invoice_date.m = now.m - 11
    /\ \E i \in 1..Len(invoices) :
         invoices[i].client_id = client.id /\ invoices[i].invoice_date.m = now.m - 12
    /\ monthlyTrend[1].invoices = 1

(* The worked example: every invoice is in the selected window, the       *)
(* current-month invoices sell A for 100 and B for 50 in total, and the    *)
(* only other invoice, in the previous month, sells A for 80 and B for 80. *)
ScenarioHolds ==
    /\ Len(filteredInvoices) = Len(invoices)
    /\ \A i \in 1..Len(invoices) :
         /\ invoices[i].invoice_date.m \in {now.m, now.m - 1}
         /\ \A j \in 1..Len(invoices[i].products) :
              invoices[i].products[j].product_name \in {"A", "B"}
    /\ Cardinality({i \in 1..Len(invoices) : invoices[i].invoice_date.m = now.m - 1}) = 1
    /\ MonthLineSum("A", now.m) = 100
    /\ MonthLineSum("B", now.m) = 50
    /\ MonthLineSum("A", now.m - 1) = 80
    /\ MonthLineSum("B", now.m - 1) = 80

(* A's growth is +25%, B's is -37.5% and B is flagged declining. *)
ScenarioProducts ==
    LET pa == productAnalysis
    IN /\ \E k \in 1..Len(pa) : pa[k].name = "A" /\ RatIs(pa[k].growth, 25)
       /\ \E k \in 1..Len(pa) :
            /\ pa[k].name = "B"
            /\ 2 * pa[k].growth.num = (0 - 75) * pa[k].growth.den
            /\ pa[k].isDeclining

(* C22, as stated: in the worked example A's growth is +25%, B's is        *)
(* -37.5% with B flagged declining, and the client's status is 'stable'.   *)
C22_ScenarioStable == ScenarioHolds => (ScenarioProducts /\ status = "stable")

(* C22, amended: in the worked example A's growth is +25%, B's is -37.5%   *)
(* with B flagged declining, the monthly sales growth is -6.25% (150       *)
(* against 160) and the client's status is 'declining'.                    *)
C22_ScenarioDeclining ==
    ScenarioHolds
    => /\ ScenarioProducts
       /\ 4 * monthlyGrowth.salesGrowth.num = (0 - 25) * monthlyGrowth.salesGrowth.den
       /\ status = "declining"

(* The example with two invoices in the current month. *)
C22_Witness == ScenarioHolds /\ Len(invoices) = 3

(* C23: the status is 'inactive' exactly when the selected window holds   *)
(* an invoice of the client and the newest of them is more than 60 days    *)
(* older than now; with no invoice in the window the status is 'stable',   *)
(* and under period '1m' it is never 'inactive'.                           *)
C23_InactiveNeedsInWindowInvoice ==
    LET fi == filteredInvoices
        st == status
        old == {i \in 1..Len(fi) : differenceInDays(now, parseISO(fi[i].invoice_date)) > 60}
    IN /\ st = "inactive" <=> (Len(fi) > 0 /\ old = 1..Len(fi))
       /\ Len(fi) = 0 => st = "stable"
       /\ period = "1m" => st # "inactive"

(* The newest invoice in the window is more than 60 days old. *)
C23_Witness ==
    /\ status = "inactive"
    /\ Len(filteredInvoices) > 0

(* The client's only purchases are a year old and outside the window. *)
C23_WitnessOutOfWindow ==
    /\ filteredInvoices = <<>>
    /\ status = "stable"
    /\ \E i \in 1..Len(invoices) :
         /\ invoices[i].client_id = client.id
         /\ differenceInDays(now, parseISO(invoices[i].invoice_date)) > 300

(* Under '1m' the window is empty while the last purchase is 61 days old. *)
C23_WitnessOneMonth ==
    /\ period = "1m"
    /\ status = "stable"
    /\ \E i \in 1..Len(invoices) :
         /\ invoices[i].client_id = client.id
         /\ differenceInDays(now, parseISO(invoices[i].invoice_date)) = 61

(* C24: whenever the 'significant drop' alert is present or two or more   *)
(* products are stopped, the status is 'inactive' or 'at_risk'; a result   *)
(* with status 'declining', 'growing' or 'stable' has no such alert and    *)
(* at most one stopped product.                                            *)
C24_AlertsAgreeWithStatus ==
    LET alerts == criticalAlerts
        st == status
        pa == productAnalysis
        dropAlert == \E k \in 1..Len(alerts) : alerts[k].kind = "drop"
        stoppedCount == Cardinality({k \in 1..Len(pa) : pa[k].isStopped})
    IN /\ (dropAlert \/ stoppedCount >= 2) => st \in {"inactive", "at_risk"}
       /\ st \in {"declining", "growing", "stable"} => (~dropAlert /\ stoppedCount <= 1)

(* Two stopped products while the monthly sales grow: at risk without the  *)
(* drop alert.                                                             *)
C24_Witness ==
    LET pa == productAnalysis
    IN /\ Cardinality({k \in 1..Len(pa) : pa[k].isStopped}) >= 2
       /\ RatGt(monthlyGrowth.salesGrowth, 0)
       /\ status = "at_risk"

(* The drop alert on an inactive client. *)
C24_WitnessInactive ==
    /\ \E k \in 1..Len(criticalAlerts) : criticalAlerts[k].kind = "drop"
    /\ status = "inactive"

(* A moderate decline: one stopped product at most and no drop alert. *)
C24_WitnessDeclining ==
    /\ status = "declining"
    /\ \A k \in 1..Len(criticalAlerts) : criticalAlerts[k].kind # "drop"

(* C25: when now is not exactly midnight, under period '6m' the semester  *)
(* comparison has previous sales 0 and a sales growth of 0 or 100, and     *)
(* under period '3m' the same holds for the quarterly comparison.          *)
C25_PreviousSpanFilteredOut ==
    LET sg == semesterGrowth
        qg == quarterlyGrowth
    IN now.t # 0
       => /\ period = "6m"
             => /\ sg.previousSales = 0
                /\ RatIs(sg.salesGrowth, 0) \/ RatIs(sg.salesGrowth, 100)
          /\ period = "3m"
             => /\ qg.previousSales = 0
                /\ RatIs(qg.salesGrowth, 0) \/ RatIs(qg.salesGrowth, 100)

(* Under '6m' the client has an invoice dated inside the previous semester *)
(* span and one on the day six months back, and current sales.             *)
C25_Witness ==
    LET w == semesterWindows
    IN /\ now.t # 0
       /\ period = "6m"
       /\ semesterGrowth.currentSales > 0
       /\ \E i \in 1..Len(invoices) :
            /\ invoices[i].client_id = client.id
            /\ isWithinInterval(parseISO(invoices[i].invoice_date), w[3], w[4])
            /\ invoices[i].invoice_date.m < now.m - 6

(* Under '3m' the client has an invoice inside the previous quarter span. *)
C25_WitnessQuarter ==
    LET w == quarterlyWindows
    IN /\ now.t # 0
       /\ period = "3m"
       /\ quarterlyGrowth.currentSales > 0
       /\ \E i \in 1..Len(invoices) :
            /\ invoices[i].client_id = client.id
            /\ isWithinInterval(parseISO(invoices[i].invoice_date), w[3], w[4])

(* At exactly midnight the invoice of the boundary day is in both spans. *)
C25_WitnessMidnight ==
    /\ now.t = 0
    /\ period = "6m"
    /\ semesterGrowth.previousSales > 0

(* The amounts of the lines called name on the selected client's invoices *)
(* dated from start to end.                                                *)
WindowLineSum(name, start, end) ==
    LET Lines == {c \in (1..Len(invoices)) \X (1..3) :
                    /\ invoices[c[1]].client_id = selectedClientId
                    /\ isWithinInterval(parseISO(invoices[c[1]].invoice_date), start, end)
                    /\ c[2] <= Len(invoices[c[1]].products)
                    /\ invoices[c[1]].products[c[2]].product_name = name}
        Amount(c) == invoices[c[1]].products[c[2]].amount
    IN SumOver(Lines, Amount)

ProductIds(rows) == {rows[k].productId : k \in 1..Len(rows)}

(* C27: in the visit-preparation data, allProducts has one row per catalog *)
(* product; every row is in exactly one of soldProducts (total > 0) and    *)
(* notSoldProducts (total = 0); growingProducts and decliningProducts are  *)
(* parts of soldProducts; a catalog product bought in the previous window  *)
(* and not in the current one has trend 'down' at -100%, is in             *)
(* notSoldProducts and in neither decliningProducts nor                    *)
(* opportunityProducts.                                                    *)
C27_VisitProductLists ==
    LET data == clientProductData
        pd == periodDates
    IN data # <<>>
       => LET r == data[1]
              all == r.allProducts
          IN /\ Len(all) = Len(products)
             /\ \A i \in 1..Len(products) :
                  Cardinality({k \in 1..Len(all) : all[k].productId = products[i].id}) = 1
             /\ Len(r.soldProducts) + Len(r.notSoldProducts) = Len(all)
             /\ \A k \in 1..Len(all) :
                  /\ all[k].totalAmount > 0 <=> all[k].productId \in ProductIds(r.soldProducts)
                  /\ all[k].totalAmount = 0 <=> all[k].productId \in ProductIds(r.notSoldProducts)
                  /\ all[k].totalAmount =
                        WindowLineSum(all[k].productName, pd.start, pd.end)
             /\ ProductIds(r.soldProducts) \cap ProductIds(r.notSoldProducts) = {}
             /\ ProductIds(r.growingProducts) \subseteq ProductIds(r.soldProducts)
             /\ ProductIds(r.decliningProducts) \subseteq ProductIds(r.soldProducts)
             /\ \A k \in 1..Len(all) :
                  (/\ WindowLineSum(all[k].productName, pd.previousStart, pd.previousEnd) > 0
                   /\ WindowLineSum(all[k].productName, pd.start, pd.end) = 0)
                  => /\ all[k].trend = "down"
                     /\ RatIs(all[k].trendPercent, 0 - 100)
                     /\ all[k].productId \in ProductIds(r.notSoldProducts)
                     /\ all[k].productId \notin ProductIds(r.decliningProducts)
                     /\ all[k].productId \notin ProductIds(r.opportunityProducts)

(* A catalog product bought in the previous window only, next to a product *)
(* that is sold. *)
C27_Witness ==
    LET data == clientProductData
    IN /\ data # <<>>
       /\ \E k \in 1..Len(data[1].notSoldProducts) :
            data[1].notSoldProducts[k].trend = "down"
       /\ data[1].soldProducts # <<>>

(* A product sold for less than in the previous window. *)
C27_WitnessDeclining ==
    LET data == clientProductData
    IN data # <<>> /\ data[1].decliningProducts # <<>>

(* C26: the results for a client are those computed from that client's   *)
(* invoices alone: in the client detail view the period-filtered invoices  *)
(* and the monthly trend, the only two readers of the invoices prop, and   *)
(* in the visit-preparation view the whole product data, are the same for  *)
(* the invoices prop and for the prop without the other clients' invoices. *)
C26_ClientIsolation ==
    LET own == SelectSeq(invoices, LAMBDA inv : inv.client_id = client.id)
        ownSelected == SelectSeq(invoices, LAMBDA inv : inv.client_id = selectedClientId)
    IN /\ filteredInvoices = filteredInvoicesOf(own)
       /\ monthlyTrend = monthlyTrendOf(own)
       /\ clientProductData = clientProductDataOf(ownSelected)

(* Both clients have invoices in the window, in both views, and a client   *)
(* is selected.                                                            *)
C26_Witness ==
    /\ selectedClientId \in ClientIds
    /\ clientInvoices # <<>>
    /\ filteredInvoices # <<>>
    /\ \E i \in 1..Len(invoices) :
         /\ invoices[i].client_id \notin {selectedClientId, client.id}
         /\ isWithinInterval(parseISO(invoices[i].invoice_date),
                             periodDates.start, periodDates.end)

(* The ids shown in the list of the card. *)
listedMatches == {matches[k] : k \in 1..Len(matches)}

(* C28: in the match-management card, once every started handleDelete has  *)
(* ended, the displayed list holds exactly the matches that were not       *)
(* deleted: none of the deleted ones, all of the others; a deleted match   *)
(* is never listed again.                                                  *)
C28_ListIsTheUndeletedMatches ==
    (~loading /\ ~error /\ deletesInFlight = {})
        => listedMatches = persistent_matches

(* C29: every handleImport that sets importing to true eventually sets it  *)
(* back to false, on every path and also when onBulkImport rejects: the    *)
(* import button does not stay in its importing state.                     *)
C29_ImportingEventuallyCleared == importing ~> ~importing

(* C30: every invoice the importer passes to onImport or onBulkImport has  *)
(* at least one line, and every line passed has a matched productId.       *)
C30_NoEmptyInvoiceHandedOver ==
    \A k \in 1..Len(handedOver) :
        \A j \in 1..Len(handedOver[k].data) :
            LET lines == handedOver[k].data[j].lines
            IN  /\ Len(lines) >= 1
                /\ \A i \in 1..Len(lines) : lines[i].productId # NoProduct

====
